---------------------------- MODULE Spec2Model ----------------------------
(***************************************************************************)
(* A model of the image-processing pipeline of src/index.js: the batch     *)
(* orchestrator processAllImages, the two metadata generators, the         *)
(* response extraction they share, validateAndFixMetadata and              *)
(* writeMetadataToImage.                                                   *)
(*                                                                         *)
(* Four specifications are given.  Spec runs one call of processAllImages  *)
(* on a small input directory, one action per stretch of code between two  *)
(* awaits.  SpecGen applies the part of a generator that follows the       *)
(* provider's answer (lines 214-241 and 300-341) to one provider response  *)
(* that is kept in the state.  SpecVal applies validateAndFixMetadata to a *)
(* raw record and then to its own result.  SpecConfig runs a session of    *)
(* the menu: the setters of the configuration and the start of             *)
(* processImages.                                                          *)
(***************************************************************************)
EXTENDS Naturals, Sequences, FiniteSets, TLC

VARIABLES
  aiModel,              \* parameter aiModel of processAllImages: "gpt" or "gemini"
  maxTags,              \* parameter maxTags of processAllImages
  delay,                \* config.delay
  inputDir,             \* the input directory: file name -> content
  outputDir,            \* the output directory: file name -> content
  pc,                   \* the position of processAllImages (or of the generator)
  imageFiles,           \* the filtered directory listing (line 401)
  i,                    \* the loop index of line 434, counted from 1
  stats,                \* the statistics object of line 393
  compressedImagePath,  \* the local of lines 169 and 258
  metadata,             \* the local of line 445
  ret,                  \* what processAllImages returned
  items,                \* per item: what happened to it (observation only)
  delays,               \* the number of inter-item waits so far (observation only)
  providerCalls,        \* the number of provider calls so far (observation only)
  response,             \* SpecGen: the provider's response
  genError,             \* SpecGen: the error the generator threw, "" if none
  rawMetadata,          \* SpecVal: the caller's object, the argument metadata
  given,                \* SpecVal: the arguments as they were at each call (observation only)
  config,               \* SpecConfig: the configuration object of line 34
  configFile,           \* SpecConfig: image-metadata-config.json
  lastSave,             \* SpecConfig: how the last saveConfig ended (observation only)
  intended,             \* SpecConfig: the configuration the last setter was to leave (observation only)
  maxTitleChars,        \* SpecConfig: parameter maxTitleChars of processAllImages
  setterOps             \* SpecConfig: the number of setter operations so far

vars == <<aiModel, maxTags, delay, inputDir, outputDir, pc, imageFiles, i, stats,
          compressedImagePath, metadata, ret, items, delays, providerCalls,
          response, genError, rawMetadata, given, config, configFile, lastSave,
          intended, maxTitleChars, setterOps>>

(* The variables of the validator's specification. *)
validatorVars == <<rawMetadata, given>>

(* The variables of the configuration's specification. *)
configVars == <<config, configFile, lastSave, intended, maxTitleChars, setterOps>>

---------------------------------------------------------------------------
(* Bounds of the model.                                                    *)

MaxFiles == 3        \* directory entries in the input directory
MaxDelay == 1        \* config.delay ranges over 0..MaxDelay
MaxTagLimit == 2     \* maxTags ranges over 1..MaxTagLimit
MaxRespLen == 1      \* Spec: tokens in a provider's response text
MaxTextLen == 4      \* SpecGen: tokens in a provider's response text
MaxValLimit == 5     \* SpecVal: maxTags ranges over 1..MaxValLimit
MaxRawTags == 3      \* SpecVal: elements in a raw record's tags
MaxSetterOps == 2    \* SpecConfig: setter operations in a session
MaxNumber == 2       \* SpecConfig: a number prompt's answers go up to MaxNumber + 0.5

---------------------------------------------------------------------------
(* JavaScript values.  A value is a record [t, v]: t its type, v its       *)
(* content as a sequence (the characters of a string, the elements of an   *)
(* array, the one number of a number, nothing for undefined and null).     *)

Undef == [t |-> "undef", v |-> <<>>]
Null == [t |-> "null", v |-> <<>>]
Str(cs) == [t |-> "str", v |-> cs]
Num(n) == [t |-> "num", v |-> <<n>>]
Arr(es) == [t |-> "arr", v |-> es]

(* String.prototype.toLowerCase, on the characters the model uses. *)
LowerChar(c) ==
  CASE c = "C" -> "c"
    [] c = "P" -> "p"
    [] c = "N" -> "n"
    [] c = "G" -> "g"
    [] c = "D" -> "d"
    [] c = "B" -> "b"
    [] c = "F" -> "f"
    [] c = "L" -> "l"
    [] c = "T" -> "t"
    [] OTHER -> c

toLowerCase(cs) == [k \in 1..Len(cs) |-> LowerChar(cs[k])]

(* String.prototype.trim: the white space at both ends is removed. *)
RECURSIVE TrimStart(_)
TrimStart(cs) ==
  IF cs # <<>> /\ Head(cs) = " " THEN TrimStart(Tail(cs)) ELSE cs

RECURSIVE TrimEnd(_)
TrimEnd(cs) ==
  IF cs # <<>> /\ cs[Len(cs)] = " " THEN TrimEnd(SubSeq(cs, 1, Len(cs) - 1)) ELSE cs

trim(cs) == TrimEnd(TrimStart(cs))

(* The truth value JavaScript gives a value in a condition. *)
Truthy(val) ==
  CASE val.t = "undef" -> FALSE
    [] val.t = "null" -> FALSE
    [] val.t = "str" -> val.v # <<>>
    [] val.t = "num" -> val.v[1] # 0
    [] OTHER -> TRUE

---------------------------------------------------------------------------
(* validateAndFixMetadata, lines 779-815.  A metadata object is a record   *)
(* [title, tags, tokenInfo] of JavaScript values.                          *)

UntitledImage ==
  <<"U", "n", "t", "i", "t", "l", "e", "d", " ", "I", "m", "a", "g", "e">>

EmptyObject == [title |-> Undef, tags |-> Undef, tokenInfo |-> Undef]

(* AddUniqueTags as it would be if line 799 added tag.trim() without       *)
(* toLowerCase: the Set tells Cat from cat.                                *)
RECURSIVE AddUniqueTagsCaseSensitive(_, _)
AddUniqueTagsCaseSensitive(tags, uniqueTags) ==
  IF tags = <<>> THEN uniqueTags
  ELSE LET tag == Head(tags)
           norm == trim(tag.v)
           keep == tag.t = "str" /\ trim(tag.v) # <<>>
           seen == \E k \in 1..Len(uniqueTags) : uniqueTags[k].v = norm
       IN  AddUniqueTagsCaseSensitive(Tail(tags),
             IF keep /\ ~seen THEN Append(uniqueTags, Str(norm)) ELSE uniqueTags)

(* Lines 796-801: the Set keeps the first occurrence of every normalised   *)
(* tag, in insertion order; elements that are no strings or trim to the    *)
(* empty string are skipped.                                               *)
RECURSIVE AddUniqueTags(_, _)
AddUniqueTags(tags, uniqueTags) ==
  IF tags = <<>> THEN uniqueTags
  ELSE LET tag == Head(tags)
           norm == toLowerCase(trim(tag.v))
           keep == tag.t = "str" /\ trim(tag.v) # <<>>
           seen == \E k \in 1..Len(uniqueTags) : uniqueTags[k].v = norm
       IN  AddUniqueTags(Tail(tags),
             IF keep /\ ~seen THEN Append(uniqueTags, Str(norm)) ELSE uniqueTags)

(* SliceTags as it would be with slice(-maxTags): the last maxTags stay. *)
SliceTagsKeepsLast(tags, limit) ==
  IF Len(tags) > limit THEN SubSeq(tags, Len(tags) - limit + 1, Len(tags)) ELSE tags

(* Lines 807-810: slice(0, maxTags) when there are more than maxTags. *)
SliceTags(tags, limit) ==
  IF Len(tags) > limit THEN SubSeq(tags, 1, limit) ELSE tags

(* validateAndFixMetadata as it would be if line 784 tested the type of    *)
(* the title only: an empty string is kept as the title.                   *)
validateAndFixMetadataKeepsEmptyTitle(md, limit) ==
  LET title == IF md.title.t # "str" THEN Str(UntitledImage) ELSE md.title
      tags == IF ~Truthy(md.tags) \/ md.tags.t # "arr" THEN <<>> ELSE md.tags.v
  IN  [md EXCEPT !.title = title,
                 !.tags = Arr(SliceTags(AddUniqueTags(tags, <<>>), limit))]

(* Lines 779-814: the title is replaced when it is falsy or no string, the *)
(* tags when they are falsy or no array; the tags are then normalised,     *)
(* deduplicated and cut to maxTags.  maxTitleChars is not used.            *)
validateAndFixMetadata(md, limit) ==
  LET title == IF ~Truthy(md.title) \/ md.title.t # "str"
               THEN Str(UntitledImage) ELSE md.title
      tags == IF ~Truthy(md.tags) \/ md.tags.t # "arr" THEN <<>> ELSE md.tags.v
  IN  [md EXCEPT !.title = title,
                 !.tags = Arr(SliceTags(AddUniqueTags(tags, <<>>), limit))]

---------------------------------------------------------------------------
(* Provider responses.  A response text is a sequence of tokens:           *)
(*   "FO"  the opening fence, ```json and a line break                     *)
(*   "FC"  the closing fence, a line break and ```                         *)
(*   "{" "}"  a brace on its own                                           *)
(*   "x"   text without braces or fences                                   *)
(*   "null"  the JSON text null                                            *)
(*   "J1" "J2" "J3"  a complete JSON object text, braces included          *)

JsonTokens == {"J1", "J2", "J3"}
Tokens == {"FO", "FC", "{", "}", "x", "null"} \cup JsonTokens

Texts(n) == UNION {[1..k -> Tokens] : k \in 0..n}

(* The objects the JSON object texts stand for. *)
Payload(tok) ==
  CASE tok = "J1" ->
         [title |-> Str(<<"A", "b">>),
          tags |-> Arr(<<Str(<<"c", "a", "t">>), Str(<<"d">>)>>),
          tokenInfo |-> Undef]
    [] tok = "J2" ->
         [title |-> Undef,
          tags |-> Arr(<<Str(<<"C", "a", "t">>), Str(<<"c", "a", "t", " ">>),
                         Str(<<"d">>), Num(7), Str(<<" ">>), Str(<<"e">>)>>),
          tokenInfo |-> Undef]
    [] OTHER ->
         [title |-> Str(<<>>), tags |-> Undef, tokenInfo |-> Undef]

(* What the provider reports as usage: nothing, or token counts. *)
NoUsage == [reported |-> FALSE, prompt |-> 0, completion |-> 0, total |-> 0]
SomeUsage == [reported |-> TRUE, prompt |-> 3, completion |-> 2, total |-> 5]
Usages == {NoUsage, SomeUsage}

NoResponse == [text |-> <<>>, usage |-> NoUsage]
Responses(n) == [text : Texts(n), usage : Usages]

(* JSON.parse: [ok, value], value an object or null. *)
JSONparse(text) ==
  IF Len(text) = 1 /\ text[1] \in JsonTokens
    THEN [ok |-> TRUE, isNull |-> FALSE, value |-> Payload(text[1])]
  ELSE IF text = <<"{", "}">>
    THEN [ok |-> TRUE, isNull |-> FALSE, value |-> EmptyObject]
  ELSE IF text = <<"null">>
    THEN [ok |-> TRUE, isNull |-> TRUE, value |-> EmptyObject]
  ELSE [ok |-> FALSE, isNull |-> FALSE, value |-> EmptyObject]

HasOpen(tok) == tok = "{" \/ tok \in JsonTokens
HasClose(tok) == tok = "}" \/ tok \in JsonTokens

NoMatch == [found |-> FALSE, whole |-> <<>>, group |-> <<>>]

(* metadataText.match(/```json\n([\s\S]*?)\n```/), lines 223 and 318: the  *)
(* leftmost opening fence and, the quantifier being lazy, the first        *)
(* closing fence after it; group 1 is what lies between.                   *)
MatchFenced(text) ==
  LET opens == {k \in 1..Len(text) : text[k] = "FO"}
  IN  IF opens = {} THEN NoMatch
      ELSE LET a == CHOOSE k \in opens : \A m \in opens : k <= m
               closes == {k \in (a + 1)..Len(text) : text[k] = "FC"}
           IN  IF closes = {} THEN NoMatch
               ELSE LET b == CHOOSE k \in closes : \A m \in closes : k <= m
                    IN  [found |-> TRUE, whole |-> SubSeq(text, a, b),
                         group |-> SubSeq(text, a + 1, b - 1)]

(* metadataText.match(/{[\s\S]*}/), lines 224 and 319: the leftmost        *)
(* opening brace and, the quantifier being greedy, the last closing brace  *)
(* of the text.  There is no group 1.                                      *)
MatchBraces(text) ==
  LET opens == {k \in 1..Len(text) : HasOpen(text[k])}
  IN  IF opens = {} THEN NoMatch
      ELSE LET a == CHOOSE k \in opens : \A m \in opens : k <= m
               closes == {k \in a..Len(text) :
                            HasClose(text[k]) /\ (k > a \/ text[k] \in JsonTokens)}
           IN  IF closes = {} THEN NoMatch
               ELSE LET b == CHOOSE k \in closes : \A m \in closes : m <= k
                    IN  [found |-> TRUE, whole |-> SubSeq(text, a, b), group |-> <<>>]

(* Lines 222-235 and 317-330: [ok, isNull, value, error, parsed], parsed   *)
(* the text handed to JSON.parse.  A match that does not parse throws      *)
(* JSON.parse's SyntaxError: only the direct parse is inside a try.        *)
ExtractJson(text) ==
  LET fenced == MatchFenced(text)
      jsonMatch == IF fenced.found THEN fenced ELSE MatchBraces(text)
      parsed == IF jsonMatch.found
                THEN (IF jsonMatch.group # <<>> THEN jsonMatch.group ELSE jsonMatch.whole)
                ELSE text
      r == JSONparse(parsed)
  IN  [ok |-> r.ok, isNull |-> r.isNull, value |-> r.value, parsed |-> parsed,
       error |-> IF r.ok THEN ""
                 ELSE IF jsonMatch.found THEN "SyntaxError"
                 ELSE "Could not parse response as JSON"]

(* generateMetadataWithGPT from the provider's answer on, lines 214-241:   *)
(* response.usage is read without a test, the object is not validated,     *)
(* tokenInfo is always set.                                                *)
GPTResult(resp, limit) ==
  LET e == ExtractJson(resp.text)
  IN  IF ~resp.usage.reported
        THEN [ok |-> FALSE, error |-> "TypeError", metadata |-> EmptyObject]
      ELSE IF ~e.ok
        THEN [ok |-> FALSE, error |-> e.error, metadata |-> EmptyObject]
      ELSE IF e.isNull
        THEN [ok |-> FALSE, error |-> "TypeError", metadata |-> EmptyObject]
      ELSE [ok |-> TRUE, error |-> "",
            metadata |-> [e.value EXCEPT !.tokenInfo =
               Arr(<<Num(resp.usage.prompt), Num(resp.usage.completion),
                     Num(resp.usage.total)>>)]]

(* generateMetadataWithGemini from the provider's answer on, lines         *)
(* 300-341: usageMetadata is tested, the object is validated, tokenInfo is *)
(* set when there is usage.  {...null} is the empty object.                *)
GeminiResult(resp, limit) ==
  LET e == ExtractJson(resp.text)
      validated == validateAndFixMetadata(e.value, limit)
  IN  IF ~e.ok
        THEN [ok |-> FALSE, error |-> e.error, metadata |-> EmptyObject]
      ELSE [ok |-> TRUE, error |-> "",
            metadata |-> IF resp.usage.reported
                         THEN [validated EXCEPT !.tokenInfo =
                                 Arr(<<Num(resp.usage.prompt), Num(resp.usage.total)>>)]
                         ELSE validated]

(* Lines 446-460: the generator the aiModel parameter selects. *)
GenerateResult(model, resp, limit) ==
  IF model = "gpt" THEN GPTResult(resp, limit) ELSE GeminiResult(resp, limit)

---------------------------------------------------------------------------
(* The configuration, lines 14-54.  A JavaScript number is NaN, Infinity   *)
(* or a finite number: int, plus one half when half is set, negative when  *)
(* kind is "neg".                                                          *)

NaN == [kind |-> "nan", int |-> 0, half |-> FALSE]
Infinity == [kind |-> "inf", int |-> 0, half |-> FALSE]
Finite(n, half) == [kind |-> "fin", int |-> n, half |-> half]
Negative(n, half) == [kind |-> "neg", int |-> n, half |-> half]
JsonNull == [kind |-> "null", int |-> 0, half |-> FALSE]

(* Lines 18-31. *)
defaultConfig ==
  [inputDir |-> "images/input",
   outputDir |-> "images/output",
   maxTitleChars |-> Finite(200, FALSE),
   maxTags |-> Finite(45, FALSE),
   gptApiKey |-> "",
   geminiApiKey |-> "",
   aiModel |-> "gemini",
   geminiModel |-> "gemini-1.5-flash",
   gptModel |-> "gpt-4.1-nano",
   showTokens |-> TRUE,
   delay |-> Finite(10, FALSE)]

(* JSON.stringify on a number: NaN and Infinity become null. *)
JsonNumber(val) == IF val.kind \in {"nan", "inf"} THEN JsonNull ELSE val

(* JSON.stringify(config, null, 2), line 50: the text, as the values it    *)
(* spells.                                                                 *)
JSONstringify(cfg) ==
  [cfg EXCEPT !.maxTitleChars = JsonNumber(@),
              !.maxTags = JsonNumber(@),
              !.delay = JsonNumber(@)]

(* The configuration file: absent, a JSON text, or cut short by a write    *)
(* that failed.                                                            *)
NoFile == [state |-> "absent", json |-> JSONstringify(defaultConfig)]
JsonFile(text) == [state |-> "json", json |-> text]
TruncatedFile == [state |-> "truncated", json |-> JSONstringify(defaultConfig)]

(* Outside a session of the menu. *)
NoSession ==
  /\ config = defaultConfig
  /\ configFile = NoFile
  /\ lastSave = "none"
  /\ intended = defaultConfig
  /\ maxTitleChars = defaultConfig.maxTitleChars
  /\ setterOps = 0

---------------------------------------------------------------------------
(* Files.  A file name is [temps, stem, ext]: the base name is temps times *)
(* the prefix "temp_", then the stem, then the extension.                  *)

Name(temps, stem, ext) == [temps |-> temps, stem |-> stem, ext |-> ext]

NoPath == Name(0, "", <<>>)

(* The names an input directory is drawn from. *)
DirUniverse ==
  {Name(0, "x", <<".", "j", "p", "g">>),
   Name(1, "x", <<".", "j", "p", "g">>),
   Name(0, "y", <<".", "P", "N", "G">>),
   Name(0, "notes", <<".", "t", "x", "t">>)}

(* Lines 129-132: the temporary file's path, temp_ before the base name. *)
TempName(file) == [file EXCEPT !.temps = @ + 1]

(* Line 403: the allowed extensions. *)
ImageExtensions ==
  {<<".", "j", "p", "g">>, <<".", "j", "p", "e", "g">>, <<".", "p", "n", "g">>,
   <<".", "g", "i", "f">>, <<".", "w", "e", "b", "p">>}

(* Lines 401-404: the filter on path.extname(file).toLowerCase(). *)
IsImageFile(file) == toLowerCase(file.ext) \in ImageExtensions

(* A directory is a function from the names present to their content. *)
EmptyDir == [f \in {} |-> "original"]
Exists(dir, file) == file \in DOMAIN dir
WriteFile(dir, file, content) == (file :> content) @@ dir
Unlink(dir, file) == [f \in (DOMAIN dir) \ {file} |-> dir[f]]

InputDirs ==
  {[f \in S |-> "original"] :
     S \in {T \in SUBSET DirUniverse : Cardinality(T) <= MaxFiles}}

(* The orders in which readdir may list a set of files. *)
Listings(S) ==
  {s \in [1..Cardinality(S) -> S] : \A a, b \in 1..Cardinality(S) : s[a] = s[b] => a = b}

---------------------------------------------------------------------------
(* processAllImages, lines 384-523.                                        *)

NoItem == [gen |-> "none", embed |-> "none", unlink |-> "none",
           outcome |-> "none", delayed |-> FALSE]

Init ==
  /\ aiModel \in {"gpt", "gemini"}
  /\ maxTags \in 1..MaxTagLimit
  /\ delay \in 0..MaxDelay
  /\ inputDir \in InputDirs
  /\ outputDir = EmptyDir
  /\ pc = "start"
  /\ imageFiles = <<>>
  /\ i = 0
  /\ stats = [total |-> 0, success |-> 0, failed |-> 0]
  /\ compressedImagePath = NoPath
  /\ metadata = EmptyObject
  /\ ret = "pending"
  /\ items = <<>>
  /\ delays = 0
  /\ providerCalls = 0
  /\ response = NoResponse
  /\ genError = ""
  /\ rawMetadata = EmptyObject
  /\ given = <<>>
  /\ NoSession

file == imageFiles[i]

(* CatchItem as it would be if the error left the loop: the outer catch of *)
(* line 516 is reached and the statistics are returned at once.            *)
CatchItemAbortsBatch(its) ==
  /\ stats' = [stats EXCEPT !.failed = @ + 1]
  /\ items' = [its EXCEPT ![i].outcome = "failed"]
  /\ metadata' = EmptyObject
  /\ compressedImagePath' = NoPath
  /\ pc' = "return"

(* CatchItem as it would be if a failed item were tried again: the loop     *)
(* goes back to the start of the same item and nothing is counted.         *)
CatchItemRetries(its) ==
  /\ stats' = stats
  /\ items' = its
  /\ metadata' = EmptyObject
  /\ compressedImagePath' = NoPath
  /\ pc' = "compress"

(* Lines 502-508: the catch of the loop body counts the item as failed;    *)
(* the loop goes on at line 510.  The locals of the generator and of the   *)
(* try block are out of scope there.                                       *)
CatchItem(its) ==
  /\ stats' = [stats EXCEPT !.failed = @ + 1]
  /\ items' = [its EXCEPT ![i].outcome = "failed"]
  /\ metadata' = EmptyObject
  /\ compressedImagePath' = NoPath
  /\ pc' = "delay"

(* Lines 400-406 and 419-434: the directory is listed and filtered, the    *)
(* loop is entered.                                                        *)
Discover ==
  /\ pc = "start"
  /\ \E listing \in Listings({f \in DOMAIN inputDir : IsImageFile(f)}) :
       /\ listing # <<>>
       /\ imageFiles' = listing
       /\ stats' = [stats EXCEPT !.total = Len(listing)]
       /\ items' = [k \in 1..Len(listing) |-> NoItem]
  /\ i' = 1
  /\ pc' = "compress"
  /\ UNCHANGED <<validatorVars, configVars>>
  /\ UNCHANGED <<aiModel, maxTags, delay, inputDir, outputDir, compressedImagePath,
                 metadata, ret, delays, providerCalls, response, genError>>

(* Lines 406-417: no file has an allowed extension; the function returns   *)
(* with a bare return statement.                                           *)
DiscoverNone ==
  /\ pc = "start"
  /\ {f \in DOMAIN inputDir : IsImageFile(f)} = {}
  /\ stats' = [stats EXCEPT !.total = 0]
  /\ ret' = "undefined"
  /\ pc' = "done"
  /\ UNCHANGED <<validatorVars, configVars>>
  /\ UNCHANGED <<aiModel, maxTags, delay, inputDir, outputDir, imageFiles, i,
                 compressedImagePath, metadata, items, delays, providerCalls,
                 response, genError>>

(* Lines 400 and 516-522: readdir throws, the outer catch reports it and   *)
(* the statistics are returned.                                            *)
DiscoverFails ==
  /\ pc = "start"
  /\ ret' = "stats"
  /\ pc' = "done"
  /\ UNCHANGED <<validatorVars, configVars>>
  /\ UNCHANGED <<aiModel, maxTags, delay, inputDir, outputDir, imageFiles, i, stats,
                 compressedImagePath, metadata, items, delays, providerCalls,
                 response, genError>>

(* CompressImage as it would be if the catch of line 140 threw the error   *)
(* again: the generator throws and the item is counted as failed.          *)
CompressImageThrows ==
  /\ pc = "compress"
  /\ \/ /\ Exists(inputDir, file)
        /\ inputDir' = WriteFile(inputDir, TempName(file), "jpeg")
        /\ compressedImagePath' = TempName(file)
        /\ items' = [items EXCEPT ![i].gen = "started"]
        /\ pc' = "encode"
        /\ UNCHANGED <<stats, metadata>>
     \/ /\ CatchItem([items EXCEPT ![i].gen = "fail"])
        /\ UNCHANGED inputDir
  /\ UNCHANGED <<validatorVars, configVars>>
  /\ UNCHANGED <<aiModel, maxTags, delay, outputDir, imageFiles, i,
                 ret, delays, providerCalls, response, genError>>

(* compressImage, lines 127-144, called at lines 169 and 258: sharp writes *)
(* the temporary file over whatever has that name, or fails (it must when  *)
(* the image is not there), writes nothing, and the original path is       *)
(* returned.                                                               *)
CompressImage ==
  /\ pc = "compress"
  /\ \/ /\ Exists(inputDir, file)
        /\ inputDir' = WriteFile(inputDir, TempName(file), "jpeg")
        /\ compressedImagePath' = TempName(file)
     \/ /\ compressedImagePath' = file
        /\ UNCHANGED inputDir
  /\ items' = [items EXCEPT ![i].gen = "started"]
  /\ pc' = "encode"
  /\ UNCHANGED <<validatorVars, configVars>>
  /\ UNCHANGED <<aiModel, maxTags, delay, outputDir, imageFiles, i, stats, metadata,
                 ret, delays, providerCalls, response, genError>>

(* imageToBase64, lines 147-157, called at lines 170 and 259. *)
ImageToBase64 ==
  /\ pc = "encode"
  /\ Exists(inputDir, compressedImagePath)
  /\ pc' = "cleanup"
  /\ UNCHANGED <<validatorVars, configVars>>
  /\ UNCHANGED <<aiModel, maxTags, delay, inputDir, outputDir, imageFiles, i, stats,
                 compressedImagePath, metadata, ret, items, delays, providerCalls,
                 response, genError>>

(* Lines 151-156, 242-245 and 342-345: readFile throws, the generator      *)
(* throws.                                                                 *)
ImageToBase64Fails ==
  /\ pc = "encode"
  /\ CatchItem([items EXCEPT ![i].gen = "fail"])
  /\ UNCHANGED <<validatorVars, configVars>>
  /\ UNCHANGED <<aiModel, maxTags, delay, inputDir, outputDir, imageFiles, i,
                 ret, delays, providerCalls,
                 response, genError>>

(* Lines 172-175 and 261-264: the temporary file is deleted when          *)
(* compressImage returned another path than the image's.                   *)
DeleteTemp ==
  /\ pc = "cleanup"
  /\ \/ /\ compressedImagePath # file
        /\ Exists(inputDir, compressedImagePath)
        /\ inputDir' = Unlink(inputDir, compressedImagePath)
     \/ /\ compressedImagePath = file
        /\ UNCHANGED inputDir
  /\ pc' = "call"
  /\ UNCHANGED <<validatorVars, configVars>>
  /\ UNCHANGED <<aiModel, maxTags, delay, outputDir, imageFiles, i, stats,
                 compressedImagePath, metadata, ret, items, delays, providerCalls,
                 response, genError>>

(* Lines 174 and 263: unlink throws, the generator throws. *)
DeleteTempFails ==
  /\ pc = "cleanup"
  /\ compressedImagePath # file
  /\ CatchItem([items EXCEPT ![i].gen = "fail"])
  /\ UNCHANGED <<validatorVars, configVars>>
  /\ UNCHANGED <<aiModel, maxTags, delay, inputDir, outputDir, imageFiles, i,
                 ret, delays, providerCalls,
                 response, genError>>

(* Lines 446-460: what the selected generator makes of the responses a    *)
(* provider may give, per provider and maxTags.                            *)
GeneratorResults ==
  [model \in {"gpt", "gemini"}, limit \in 1..MaxTagLimit |->
     {GenerateResult(model, resp, limit) : resp \in Responses(MaxRespLen)}]

(* Lines 182-241 and 299-341: the provider answers and the generator       *)
(* returns the record or throws.                                           *)
CallProvider ==
  /\ pc = "call"
  /\ providerCalls' = providerCalls + 1
  /\ \E r \in GeneratorResults[aiModel, maxTags] :
           \/ /\ r.ok
              /\ metadata' = r.metadata
              /\ compressedImagePath' = NoPath
              /\ items' = [items EXCEPT ![i].gen = "ok"]
              /\ pc' = "embed"
              /\ UNCHANGED stats
           \/ /\ ~r.ok
              /\ CatchItem([items EXCEPT ![i].gen = "fail"])
  /\ UNCHANGED <<validatorVars, configVars>>
  /\ UNCHANGED <<aiModel, maxTags, delay, inputDir, outputDir, imageFiles, i,
                 ret, delays, response, genError>>

(* Lines 182 and 299: the provider call throws (network, key, quota). *)
CallProviderFails ==
  /\ pc = "call"
  /\ providerCalls' = providerCalls + 1
  /\ CatchItem([items EXCEPT ![i].gen = "fail"])
  /\ UNCHANGED <<validatorVars, configVars>>
  /\ UNCHANGED <<aiModel, maxTags, delay, inputDir, outputDir, imageFiles, i,
                 ret, delays, response, genError>>

(* writeMetadataToImage, lines 349-375: the copy, then the write of the    *)
(* fields; the function returns true.                                      *)
WriteMetadataToImage ==
  /\ pc = "embed"
  /\ Exists(inputDir, file)
  /\ metadata.tags.t = "arr"
  /\ outputDir' = WriteFile(outputDir, file, "written")
  /\ items' = [items EXCEPT ![i].embed = "ok"]
  /\ pc' = "unlink"
  /\ UNCHANGED <<validatorVars, configVars>>
  /\ UNCHANGED <<aiModel, maxTags, delay, inputDir, imageFiles, i, stats,
                 compressedImagePath, metadata, ret, delays, providerCalls,
                 response, genError>>

(* Lines 354-357 and 376-378: ensureDir or copy throws, nothing is         *)
(* written, the function throws.                                           *)
WriteMetadataCopyFails ==
  /\ pc = "embed"
  /\ CatchItem([items EXCEPT ![i].embed = "fail"])
  /\ UNCHANGED <<validatorVars, configVars>>
  /\ UNCHANGED <<aiModel, maxTags, delay, inputDir, outputDir, imageFiles, i,
                 ret, delays, providerCalls,
                 response, genError>>

(* WriteMetadataWriteFails as it would be if the catch of line 376 did not *)
(* throw the error again and the caller went on.                           *)
WriteMetadataWriteFailsSilently ==
  /\ pc = "embed"
  /\ Exists(inputDir, file)
  /\ outputDir' = WriteFile(outputDir, file, "copied")
  /\ items' = [items EXCEPT ![i].embed = "fail"]
  /\ pc' = "unlink"
  /\ UNCHANGED <<validatorVars, configVars>>
  /\ UNCHANGED <<aiModel, maxTags, delay, inputDir, imageFiles, i, stats,
                 compressedImagePath, metadata, ret, delays, providerCalls,
                 response, genError>>

(* Lines 357-368 and 376-378: the copy is made, then metadata.tags.join    *)
(* throws on tags that are no array or exiftool.write throws; the function *)
(* throws and the copy stays.                                              *)
WriteMetadataWriteFails ==
  /\ pc = "embed"
  /\ Exists(inputDir, file)
  /\ outputDir' = WriteFile(outputDir, file, "copied")
  /\ CatchItem([items EXCEPT ![i].embed = "fail"])
  /\ UNCHANGED <<validatorVars, configVars>>
  /\ UNCHANGED <<aiModel, maxTags, delay, inputDir, imageFiles, i,
                 ret, delays, providerCalls,
                 response, genError>>

(* Lines 477 and 492: metadata.title.length throws on a title that is      *)
(* undefined or null.                                                      *)
LogThrows == metadata.title.t \in {"undef", "null"}

(* DeleteOriginal as it would be if stats.success++ stood before the       *)
(* report of lines 474-498: an item whose report throws is counted twice.  *)
DeleteOriginalCountsFirst ==
  /\ pc = "unlink"
  /\ Exists(inputDir, file)
  /\ inputDir' = Unlink(inputDir, file)
  /\ \/ /\ ~LogThrows
        /\ stats' = [stats EXCEPT !.success = @ + 1]
        /\ items' = [items EXCEPT ![i].unlink = "ok", ![i].outcome = "success"]
     \/ /\ LogThrows
        /\ stats' = [stats EXCEPT !.success = @ + 1, !.failed = @ + 1]
        /\ items' = [items EXCEPT ![i].unlink = "ok", ![i].outcome = "failed"]
  /\ metadata' = EmptyObject
  /\ compressedImagePath' = NoPath
  /\ pc' = "delay"
  /\ UNCHANGED <<validatorVars, configVars>>
  /\ UNCHANGED <<aiModel, maxTags, delay, outputDir, imageFiles, i,
                 ret, delays, providerCalls, response, genError>>

(* Lines 469-501: the original is deleted, the item is reported and        *)
(* counted as a success; a throw of the report is caught at line 502.      *)
DeleteOriginal ==
  /\ pc = "unlink"
  /\ Exists(inputDir, file)
  /\ inputDir' = Unlink(inputDir, file)
  /\ \/ /\ ~LogThrows
        /\ stats' = [stats EXCEPT !.success = @ + 1]
        /\ items' = [items EXCEPT ![i].unlink = "ok", ![i].outcome = "success"]
        /\ metadata' = EmptyObject
        /\ compressedImagePath' = NoPath
        /\ pc' = "delay"
     \/ /\ LogThrows
        /\ CatchItem([items EXCEPT ![i].unlink = "ok"])
  /\ UNCHANGED <<validatorVars, configVars>>
  /\ UNCHANGED <<aiModel, maxTags, delay, outputDir, imageFiles, i,
                 ret, delays, providerCalls, response, genError>>

(* Lines 470 and 502-508: unlink throws. *)
DeleteOriginalFails ==
  /\ pc = "unlink"
  /\ CatchItem([items EXCEPT ![i].unlink = "fail"])
  /\ UNCHANGED <<validatorVars, configVars>>
  /\ UNCHANGED <<aiModel, maxTags, delay, inputDir, outputDir, imageFiles, i,
                 ret, delays, providerCalls,
                 response, genError>>

(* ShouldDelay as it would be with i < imageFiles.length in place of       *)
(* i < imageFiles.length - 1: a wait after the last item too.              *)
ShouldDelayAfterLast == i <= Len(imageFiles) /\ delay > 0

(* Line 511: the condition of the wait. *)
ShouldDelay == i < Len(imageFiles) /\ delay > 0

(* Line 434: i++ and the loop's test. *)
NextIteration ==
  /\ i' = i + 1
  /\ pc' = IF i + 1 <= Len(imageFiles) THEN "compress" ELSE "return"

(* Lines 510-514: the wait between two items. *)
Delay ==
  /\ pc = "delay"
  /\ ShouldDelay
  /\ delays' = delays + 1
  /\ items' = [items EXCEPT ![i].delayed = TRUE]
  /\ NextIteration
  /\ UNCHANGED <<validatorVars, configVars>>
  /\ UNCHANGED <<aiModel, maxTags, delay, inputDir, outputDir, imageFiles, stats,
                 compressedImagePath, metadata, ret, providerCalls, response,
                 genError>>

(* Lines 511 and 434: no wait. *)
NoDelay ==
  /\ pc = "delay"
  /\ ~ShouldDelay
  /\ NextIteration
  /\ UNCHANGED <<validatorVars, configVars>>
  /\ UNCHANGED <<aiModel, maxTags, delay, inputDir, outputDir, imageFiles, stats,
                 compressedImagePath, metadata, ret, items, delays, providerCalls,
                 response, genError>>

(* Line 522: return stats. *)
ReturnStats ==
  /\ pc = "return"
  /\ ret' = "stats"
  /\ pc' = "done"
  /\ UNCHANGED <<validatorVars, configVars>>
  /\ UNCHANGED <<aiModel, maxTags, delay, inputDir, outputDir, imageFiles, i, stats,
                 compressedImagePath, metadata, items, delays, providerCalls,
                 response, genError>>

Next ==
  \/ Discover
  \/ DiscoverNone
  \/ DiscoverFails
  \/ CompressImage
  \/ ImageToBase64
  \/ ImageToBase64Fails
  \/ DeleteTemp
  \/ DeleteTempFails
  \/ CallProvider
  \/ CallProviderFails
  \/ WriteMetadataToImage
  \/ WriteMetadataCopyFails
  \/ WriteMetadataWriteFails
  \/ DeleteOriginal
  \/ DeleteOriginalFails
  \/ Delay
  \/ NoDelay
  \/ ReturnStats

Spec == Init /\ [][Next]_vars

---------------------------------------------------------------------------
(* One generator on one provider response, from the answer on.             *)

InitGen ==
  /\ aiModel \in {"gpt", "gemini"}
  /\ maxTags \in 1..MaxTagLimit
  /\ response \in Responses(MaxTextLen)
  /\ pc = "response"
  /\ delay = 0
  /\ inputDir = EmptyDir
  /\ outputDir = EmptyDir
  /\ imageFiles = <<>>
  /\ i = 0
  /\ stats = [total |-> 0, success |-> 0, failed |-> 0]
  /\ compressedImagePath = NoPath
  /\ metadata = EmptyObject
  /\ ret = "pending"
  /\ items = <<>>
  /\ delays = 0
  /\ providerCalls = 0
  /\ genError = ""
  /\ rawMetadata = EmptyObject
  /\ given = <<>>
  /\ NoSession

(* Lines 214-245 and 300-345: the generator returns the record or throws. *)
ParseResponse ==
  /\ pc = "response"
  /\ LET r == GenerateResult(aiModel, response, maxTags)
     IN  /\ metadata' = r.metadata
         /\ genError' = r.error
         /\ pc' = IF r.ok THEN "returned" ELSE "thrown"
  /\ UNCHANGED <<validatorVars, configVars>>
  /\ UNCHANGED <<aiModel, maxTags, delay, inputDir, outputDir, imageFiles, i, stats,
                 compressedImagePath, ret, items, delays, providerCalls, response>>

NextGen == ParseResponse

SpecGen == InitGen /\ [][NextGen]_vars

---------------------------------------------------------------------------
(* validateAndFixMetadata on one raw record, then on its own result.       *)

Cat == <<"C", "a", "t">>
Dog == <<"D", "o", "g">>

(* The tags of the example: Cat, "cat ", Dog, Bird, Fish, Lion, Tiger. *)
ExampleTags ==
  <<Str(Cat), Str(<<"c", "a", "t", " ">>), Str(Dog), Str(<<"B", "i", "r", "d">>),
    Str(<<"F", "i", "s", "h">>), Str(<<"L", "i", "o", "n">>),
    Str(<<"T", "i", "g", "e", "r">>)>>

(* What a parsed provider object may hold as title, as an element of tags  *)
(* and as tags.                                                            *)
RawTitles == {Undef, Null, Str(<<>>), Str(<<" ">>), Str(<<"A", "b">>), Num(7)}

RawTagElements ==
  {Str(Cat), Str(<<"c", "a", "t", " ">>), Str(<<" ", "d">>), Str(<<" ">>), Num(7), Null}

RawTags ==
  {Undef, Null, Str(Cat), Arr(ExampleTags)}
    \cup {Arr(es) : es \in UNION {[1..n -> RawTagElements] : n \in 0..MaxRawTags}}

RawRecords == [title : RawTitles, tags : RawTags, tokenInfo : {Undef}]

InitVal ==
  /\ rawMetadata \in RawRecords
  /\ maxTags \in 1..MaxValLimit
  /\ given = <<>>
  /\ pc = "validate"
  /\ metadata = EmptyObject
  /\ aiModel = "gemini"
  /\ delay = 0
  /\ inputDir = EmptyDir
  /\ outputDir = EmptyDir
  /\ imageFiles = <<>>
  /\ i = 0
  /\ stats = [total |-> 0, success |-> 0, failed |-> 0]
  /\ compressedImagePath = NoPath
  /\ ret = "pending"
  /\ items = <<>>
  /\ delays = 0
  /\ providerCalls = 0
  /\ response = NoResponse
  /\ genError = ""
  /\ NoSession

(* ValidateCall as it would be if line 781 were                            *)
(* const validatedMetadata = metadata: the assignments of lines 785-809    *)
(* change the caller's object.                                             *)
ValidateCallInPlace(md, limit) ==
  [returned |-> validateAndFixMetadata(md, limit),
   argument |-> validateAndFixMetadata(md, limit)]

(* A call of validateAndFixMetadata: what it returns and what the caller's *)
(* object is afterwards.  Line 781 copies the properties; lines 785-809    *)
(* assign properties of the copy, and the tags array of the argument is    *)
(* read by forEach (line 797) and never written.                           *)
ValidateCall(md, limit) ==
  [returned |-> validateAndFixMetadata(md, limit), argument |-> md]

(* The call of line 333 on a raw record. *)
Validate ==
  /\ pc = "validate"
  /\ given' = <<rawMetadata>>
  /\ LET r == ValidateCall(rawMetadata, maxTags)
     IN  /\ metadata' = r.returned
         /\ rawMetadata' = r.argument
  /\ pc' = "validated"
  /\ UNCHANGED configVars
  /\ UNCHANGED <<aiModel, maxTags, delay, inputDir, outputDir, imageFiles, i, stats,
                 compressedImagePath, ret, items, delays, providerCalls, response,
                 genError>>

(* A second call, on the record the first call returned. *)
ValidateAgain ==
  /\ pc = "validated"
  /\ given' = Append(given, metadata)
  /\ LET r == ValidateCall(metadata, maxTags)
     IN  /\ metadata' = r.returned
         /\ rawMetadata' = r.argument
  /\ pc' = "revalidated"
  /\ UNCHANGED configVars
  /\ UNCHANGED <<aiModel, maxTags, delay, inputDir, outputDir, imageFiles, i, stats,
                 compressedImagePath, ret, items, delays, providerCalls, response,
                 genError>>

NextVal ==
  \/ Validate
  \/ ValidateAgain

SpecVal == InitVal /\ [][NextVal]_vars

---------------------------------------------------------------------------
(* A session of the menu: the setters, lines 586-924, and the start of     *)
(* processImages, lines 927-1066.                                          *)

(* What a prompt of type number may hand to validate. *)
PromptNumbers ==
  {NaN, Infinity, Negative(1, FALSE)}
    \cup {Finite(n, half) : n \in 0..MaxNumber, half \in BOOLEAN}

(* Lines 663-668 and 695-700: isNaN(value) || value <= 0 is refused. *)
AcceptsPositive(val) ==
  val.kind = "inf" \/ (val.kind = "fin" /\ (val.int > 0 \/ val.half))

(* Lines 885-890: isNaN(value) || value < 0 is refused. *)
AcceptsNonNegative(val) == val.kind \in {"inf", "fin"}

(* parseInt, lines 932-933: the digits of String(value) before the point;  *)
(* String(Infinity) has none.                                              *)
parseInt(val) ==
  CASE val.kind = "fin" -> Finite(val.int, FALSE)
    [] val.kind = "neg" -> Negative(val.int, FALSE)
    [] OTHER -> NaN

(* The directories that exist, for validateDirectory (lines 120-124), and  *)
(* the paths the output prompt accepts (lines 612-634).                    *)
InputDirAnswers == {"images/input", "photos"}
OutputDirAnswers == {"images/output", "out"}
ApiKeyAnswers == {"", "key"}

(* The choices of lines 824-830 and 852-857. *)
GeminiModels ==
  {"gemini-2.5-pro", "gemini-2.5-flash", "gemini-2.0-flash", "gemini-1.5-flash",
   "gemini-1.5-pro"}
GptModels == {"gpt-4-vision-preview", "gpt-4.1-mini", "gpt-4.1-nano", "o4-mini"}

InitConfig ==
  /\ config = defaultConfig
  /\ configFile \in {NoFile, JsonFile(JSONstringify(defaultConfig))}
  /\ lastSave = "none"
  /\ intended = defaultConfig
  /\ maxTitleChars = defaultConfig.maxTitleChars
  /\ setterOps = 0
  /\ pc = "menu"
  /\ aiModel = defaultConfig.aiModel
  /\ maxTags = defaultConfig.maxTags
  /\ delay = defaultConfig.delay
  /\ inputDir = EmptyDir
  /\ outputDir = EmptyDir
  /\ imageFiles = <<>>
  /\ i = 0
  /\ stats = [total |-> 0, success |-> 0, failed |-> 0]
  /\ compressedImagePath = NoPath
  /\ metadata = EmptyObject
  /\ ret = "pending"
  /\ items = <<>>
  /\ delays = 0
  /\ providerCalls = 0
  /\ response = NoResponse
  /\ genError = ""
  /\ rawMetadata = EmptyObject
  /\ given = <<>>

(* saveConfig as it would be if line 50 wrote defaultConfig, the object    *)
(* config starts from, in place of config.                                 *)
saveConfigWritesDefaults(cfg, fileBefore, outcome) ==
  CASE outcome = "written" -> JsonFile(JSONstringify(defaultConfig))
    [] outcome = "truncated" -> TruncatedFile
    [] OTHER -> fileBefore

(* saveConfig, lines 48-54: the file after the call.  writeFileSync writes *)
(* the text, or throws and leaves the file as it was or cut short; the     *)
(* catch reports the error and the function returns.                       *)
saveConfig(cfg, fileBefore, outcome) ==
  CASE outcome = "written" -> JsonFile(JSONstringify(cfg))
    [] outcome = "truncated" -> TruncatedFile
    [] OTHER -> fileBefore

(* What every setter does after its prompt: the assignment to config, then *)
(* saveConfig, then the report; the menu is shown again.                   *)
Setter(newConfig) ==
  /\ pc = "menu"
  /\ setterOps < MaxSetterOps
  /\ setterOps' = setterOps + 1
  /\ intended' = newConfig
  /\ config' = newConfig
  /\ \E outcome \in {"written", "failed", "truncated"} :
       /\ configFile' = saveConfig(newConfig, configFile, outcome)
       /\ lastSave' = IF outcome = "written" THEN "written" ELSE "failed"
  /\ UNCHANGED validatorVars
  /\ UNCHANGED <<aiModel, maxTags, delay, inputDir, outputDir, pc, imageFiles, i, stats,
                 compressedImagePath, metadata, ret, items, delays, providerCalls,
                 response, genError, maxTitleChars>>

(* setInputDirectory, lines 586-611. *)
SetInputDirectory ==
  \E answer \in InputDirAnswers : Setter([config EXCEPT !.inputDir = answer])

(* setOutputDirectory, lines 614-652. *)
SetOutputDirectory ==
  \E answer \in OutputDirAnswers : Setter([config EXCEPT !.outputDir = answer])

(* setMaxTitleChars, lines 655-685. *)
SetMaxTitleChars ==
  \E answer \in PromptNumbers :
    /\ AcceptsPositive(answer)
    /\ Setter([config EXCEPT !.maxTitleChars = answer])

(* setMaxTags, lines 688-715. *)
SetMaxTags ==
  \E answer \in PromptNumbers :
    /\ AcceptsPositive(answer)
    /\ Setter([config EXCEPT !.maxTags = answer])

(* setApiKeys, lines 718-746. *)
SetApiKeys ==
  \E gptApiKey \in ApiKeyAnswers, geminiApiKey \in ApiKeyAnswers :
    Setter([config EXCEPT !.gptApiKey = gptApiKey, !.geminiApiKey = geminiApiKey])

(* selectAiModel, lines 749-776. *)
SelectAiModel ==
  \E answer \in {"gpt", "gemini"} : Setter([config EXCEPT !.aiModel = answer])

(* selectSpecificModel, lines 818-875. *)
SelectSpecificModel ==
  \/ /\ config.aiModel = "gemini"
     /\ \E answer \in GeminiModels : Setter([config EXCEPT !.geminiModel = answer])
  \/ /\ config.aiModel # "gemini"
     /\ \E answer \in GptModels : Setter([config EXCEPT !.gptModel = answer])

(* setDelay, lines 878-907. *)
SetDelay ==
  \E answer \in PromptNumbers :
    /\ AcceptsNonNegative(answer)
    /\ Setter([config EXCEPT !.delay = answer])

(* toggleTokenDisplay, lines 910-924. *)
ToggleTokenDisplay == Setter([config EXCEPT !.showTokens = ~config.showTokens])

(* processImages, lines 927-1066, when the directories and the key are set *)
(* and the user confirms: the arguments of processAllImages; config.delay  *)
(* is what line 511 reads.                                                 *)
ProcessImages ==
  /\ pc = "menu"
  /\ config.inputDir # "" /\ config.outputDir # ""
  /\ (IF config.aiModel = "gpt" THEN config.gptApiKey ELSE config.geminiApiKey) # ""
  /\ aiModel' = config.aiModel
  /\ maxTitleChars' = parseInt(config.maxTitleChars)
  /\ maxTags' = parseInt(config.maxTags)
  /\ delay' = config.delay
  /\ pc' = "processing"
  /\ UNCHANGED validatorVars
  /\ UNCHANGED <<inputDir, outputDir, imageFiles, i, stats, compressedImagePath,
                 metadata, ret, items, delays, providerCalls, response, genError,
                 config, configFile, lastSave, intended, setterOps>>

(* Line 579: processImages has returned, its locals are gone, and the main *)
(* menu is shown again.                                                    *)
ShowMainMenu ==
  /\ pc = "processing"
  /\ pc' = "menu"
  /\ aiModel' = defaultConfig.aiModel
  /\ maxTitleChars' = defaultConfig.maxTitleChars
  /\ maxTags' = defaultConfig.maxTags
  /\ delay' = defaultConfig.delay
  /\ UNCHANGED validatorVars
  /\ UNCHANGED <<inputDir, outputDir, imageFiles, i, stats, compressedImagePath,
                 metadata, ret, items, delays, providerCalls, response, genError,
                 config, configFile, lastSave, intended, setterOps>>

NextConfig ==
  \/ SetInputDirectory
  \/ SetOutputDirectory
  \/ SetMaxTitleChars
  \/ SetMaxTags
  \/ SetApiKeys
  \/ SelectAiModel
  \/ SelectSpecificModel
  \/ SetDelay
  \/ ToggleTokenDisplay
  \/ ProcessImages
  \/ ShowMainMenu

SpecConfig == InitConfig /\ [][NextConfig]_vars

---------------------------------------------------------------------------
(* The claims.                                                             *)

Range(seq) == {seq[k] : k \in DOMAIN seq}
ItemsWith(outcome) == {k \in DOMAIN items : items[k].outcome = outcome}
BatchDone == pc = "done" /\ imageFiles # <<>>

(* C1: a batch of N >= 1 candidates runs to its end whichever items fail:  *)
(* when processAllImages has returned, every one of the N items was        *)
(* attempted and has its outcome, and the statistics were returned; while  *)
(* the loop runs, every item before the current one has its outcome.      *)
C1_FailureNeverAbortsBatch ==
  /\ BatchDone =>
       /\ ret = "stats"
       /\ \A k \in DOMAIN imageFiles :
            items[k].gen # "none" /\ items[k].outcome \in {"success", "failed"}
  /\ pc \in {"compress", "encode", "cleanup", "call", "embed", "unlink", "delay"} =>
       /\ i \in DOMAIN imageFiles
       /\ \A k \in 1..(i - 1) : items[k].outcome \in {"success", "failed"}

(* C1, its case: a batch of three whose second item failed in generation   *)
(* and whose first and third were embedded and deleted.                    *)
C1_Witness ==
  /\ BatchDone
  /\ Len(imageFiles) = 3
  /\ items[2].gen = "fail" /\ items[2].outcome = "failed"
  /\ items[1].outcome = "success" /\ items[3].outcome = "success"
  /\ items[3].embed = "ok" /\ items[3].unlink = "ok"
  /\ stats = [total |-> 3, success |-> 2, failed |-> 1]
  /\ Exists(inputDir, imageFiles[2])
  /\ ~Exists(inputDir, imageFiles[1]) /\ ~Exists(inputDir, imageFiles[3])
  /\ ret = "stats"

(* C2: the statistics start at zero; every processed item adds one to      *)
(* exactly one of success and failed, so success + failed is the number of *)
(* items processed so far; when the function returns after the loop,       *)
(* success + failed = total = the number of candidates listed.             *)
C2_StatsCountEachItemOnce ==
  /\ pc = "start" => stats = [total |-> 0, success |-> 0, failed |-> 0]
  /\ stats.success = Cardinality(ItemsWith("success"))
  /\ stats.failed = Cardinality(ItemsWith("failed"))
  /\ pc \in {"compress", "encode", "cleanup", "call", "embed", "unlink"} =>
       stats.success + stats.failed = i - 1
  /\ pc = "delay" => stats.success + stats.failed = i
  /\ pc \in {"return", "done"} /\ imageFiles # <<>> =>
       /\ stats.success + stats.failed = stats.total
       /\ stats.total = Len(imageFiles)

(* C2, its case: a finished batch of three with successes and failures. *)
C2_Witness ==
  /\ BatchDone
  /\ ret = "stats"
  /\ stats.total = 3
  /\ stats.success >= 1
  /\ stats.failed >= 1

(* C3: the unlink of an item's original is reached only after              *)
(* writeMetadataToImage returned for that item: an item whose generation   *)
(* or embedding failed has no unlink of the orchestrator.                  *)
C3_UnlinkOnlyAfterEmbed ==
  \A k \in DOMAIN items :
    /\ items[k].unlink # "none" => items[k].gen = "ok" /\ items[k].embed = "ok"
    /\ items[k].gen = "fail" \/ items[k].embed = "fail" => items[k].unlink = "none"
    /\ pc = "unlink" /\ k = i => items[k].embed = "ok"

(* C3, its case: a finished batch with an item whose embedding failed and  *)
(* whose original is still there, and an item whose original was deleted.  *)
C3_Witness ==
  /\ BatchDone
  /\ \E k \in DOMAIN items :
       /\ items[k].embed = "fail"
       /\ Exists(inputDir, imageFiles[k])
       /\ inputDir[imageFiles[k]] = "original"
  /\ \E k \in DOMAIN items : items[k].gen = "fail" /\ Exists(inputDir, imageFiles[k])
  /\ \E k \in DOMAIN items : items[k].unlink = "ok"

(* C4: an item is counted as a success exactly when its embedding          *)
(* succeeded, and as failed only when its generation or its embedding      *)
(* raised an error.                                                        *)
C4_SuccessIffEmbedded ==
  \A k \in DOMAIN items :
    items[k].outcome # "none" =>
      /\ items[k].embed = "ok" <=> items[k].outcome = "success"
      /\ items[k].outcome = "failed" => items[k].gen = "fail" \/ items[k].embed = "fail"

(* C5: at the end of a batch the candidates still in the input directory   *)
(* are exactly the items counted as failed, and the originals of the items *)
(* counted as successes are gone.                                          *)
C5_RemainingAreTheFailed ==
  BatchDone =>
    /\ {f \in Range(imageFiles) : Exists(inputDir, f)}
         = {imageFiles[k] : k \in ItemsWith("failed")}
    /\ \A k \in ItemsWith("success") : ~Exists(inputDir, imageFiles[k])

(* The invariants of a record: a non-empty string as title, an array of    *)
(* strings as tags, no two equal after trim and toLowerCase, at most       *)
(* limit of them.                                                          *)
RecordInvariants(md, limit) ==
  /\ md.title.t = "str" /\ md.title.v # <<>>
  /\ md.tags.t = "arr"
  /\ \A k \in DOMAIN md.tags.v : md.tags.v[k].t = "str"
  /\ \A a, b \in DOMAIN md.tags.v :
       toLowerCase(trim(md.tags.v[a].v)) = toLowerCase(trim(md.tags.v[b].v)) => a = b
  /\ Len(md.tags.v) <= limit

(* C6: every record handed to writeMetadataToImage, whichever provider     *)
(* made it, satisfies the invariants of a record.                          *)
C6_EmbeddedRecordValid ==
  pc = "embed" => RecordInvariants(metadata, maxTags)

(* The parts of a response text the extraction order speaks of.  A fenced  *)
(* block runs from an opening fence to the next closing fence; a brace     *)
(* region is a stretch of the text that is one JSON object.                *)
IsObjectText(text) == JSONparse(text).ok /\ ~JSONparse(text).isNull

ValidBlocks(text) ==
  {SubSeq(text, a + 1, b - 1) : <<a, b>> \in
     {<<a, b>> \in (DOMAIN text) \X (DOMAIN text) :
        /\ a < b /\ text[a] = "FO" /\ text[b] = "FC"
        /\ \A m \in (a + 1)..(b - 1) : text[m] # "FC"
        /\ IsObjectText(SubSeq(text, a + 1, b - 1))}}

HasFence(text) ==
  \E a, b \in DOMAIN text : a < b /\ text[a] = "FO" /\ text[b] = "FC"

ValidRegions(text) ==
  {SubSeq(text, a, b) : <<a, b>> \in
     {<<a, b>> \in (DOMAIN text) \X (DOMAIN text) :
        a <= b /\ IsObjectText(SubSeq(text, a, b))}}

(* The record a generator returns for a parsed object, title and tags. *)
RecordOf(obj) ==
  IF aiModel = "gpt" THEN obj ELSE validateAndFixMetadata(obj, maxTags)

ReturnedFrom(texts) ==
  /\ pc = "returned"
  /\ \E t \in texts :
       /\ metadata.title = RecordOf(JSONparse(t).value).title
       /\ metadata.tags = RecordOf(JSONparse(t).value).tags

(* C7: for every response text that reports usage: a fenced block with     *)
(* valid content is what the record is parsed from, whatever braces stand  *)
(* elsewhere; without a fenced block, a valid brace region, whatever       *)
(* surrounds it, is what the record is parsed from; a text that is the     *)
(* object alone is parsed as it is; any other text makes the generator     *)
(* throw.                                                                  *)
C7_ExtractionOrder ==
  pc \in {"returned", "thrown"} /\ response.usage.reported =>
    LET text == response.text
    IN  /\ ValidBlocks(text) # {} => ReturnedFrom(ValidBlocks(text))
        /\ ~HasFence(text) /\ ValidRegions(text) # {} => ReturnedFrom(ValidRegions(text))
        /\ IsObjectText(text) => ReturnedFrom({text})
        /\ /\ ValidBlocks(text) = {}
           /\ HasFence(text) \/ ValidRegions(text) = {}
           /\ ~IsObjectText(text)
           => pc = "thrown"

(* C8: for both providers, a response that reports usage gives a record    *)
(* with tokenInfo, and a response without usage whose text holds the       *)
(* object still gives a record, without tokenInfo.                         *)
C8_UsageIsOptional ==
  pc \in {"returned", "thrown"} /\ IsObjectText(ExtractJson(response.text).parsed) =>
    /\ pc = "returned"
    /\ response.usage.reported <=> metadata.tokenInfo # Undef

(* C9: a finished batch of N >= 1 items saw N - 1 waits when delay > 0,    *)
(* one after every item but the last whatever its outcome, and none when   *)
(* delay = 0.                                                              *)
C9_DelayBetweenItemsOnly ==
  /\ BatchDone =>
       /\ delays = IF delay > 0 THEN Len(imageFiles) - 1 ELSE 0
       /\ \A k \in DOMAIN items :
            items[k].delayed <=> (delay > 0 /\ k < Len(imageFiles))
  /\ pc \in {"compress", "encode", "cleanup", "call", "embed", "unlink", "delay"} =>
       delays = IF delay > 0 THEN i - 1 ELSE 0

(* C9, its case: a finished batch of three with delay > 0, a failed item   *)
(* and a successful one before the last: two waits, none after the third.  *)
C9_Witness ==
  /\ BatchDone
  /\ delay > 0
  /\ Len(imageFiles) = 3
  /\ delays = 2
  /\ items[1].outcome = "failed" /\ items[1].delayed
  /\ items[2].outcome = "success" /\ items[2].delayed
  /\ ~items[3].delayed

(* C10: on an input directory without a file of an allowed extension,      *)
(* processAllImages returns the statistics {total: 0, success: 0,          *)
(* failed: 0} and calls no provider, embeds nothing, deletes nothing.      *)
C10_EmptyDirectoryReturnsStats ==
  pc = "done" /\ imageFiles = <<>> /\ {f \in DOMAIN inputDir : IsImageFile(f)} = {} =>
    /\ ret = "stats"
    /\ stats = [total |-> 0, success |-> 0, failed |-> 0]
    /\ providerCalls = 0
    /\ outputDir = EmptyDir
    /\ \A f \in DOMAIN inputDir : inputDir[f] = "original"

(* C11: the items are processed in the order of the listing, one at a      *)
(* time: while item i is in flight every item before it has its outcome    *)
(* and no step of a later item has begun; an item that has its outcome is  *)
(* not in flight again; the provider was called at most once per item that *)
(* went through generation; a finished batch attempted every item.         *)
C11_OneItemAtATimeInOrder ==
  /\ pc \in {"compress", "encode", "cleanup", "call", "embed", "unlink", "delay"} =>
       /\ i \in DOMAIN imageFiles
       /\ \A k \in 1..(i - 1) :
            items[k].gen \in {"ok", "fail"} /\ items[k].outcome \in {"success", "failed"}
       /\ \A k \in (i + 1)..Len(imageFiles) : items[k] = NoItem
       /\ pc = "compress" => items[i] = NoItem
       /\ pc = "delay" <=> items[i].outcome # "none"
  /\ providerCalls <= Cardinality({k \in DOMAIN items : items[k].gen \in {"ok", "fail"}})
  /\ pc = "call" => providerCalls <= i - 1
  /\ BatchDone =>
       /\ \A k \in DOMAIN items : items[k].gen \in {"ok", "fail"}
       /\ providerCalls <= Len(imageFiles)

(* C11, its case: the second of three items is in flight after its one     *)
(* provider call, the first failed after its own call, the third is        *)
(* untouched.                                                              *)
C11_Witness ==
  /\ pc = "embed"
  /\ Len(imageFiles) = 3
  /\ i = 2
  /\ items[1].outcome = "failed" /\ items[1].embed = "fail"
  /\ items[3] = NoItem
  /\ providerCalls = 2

(* The input elements that count as tags, and the form they are compared   *)
(* in.                                                                     *)
IsTag(e) == e.t = "str" /\ trim(e.v) # <<>>
Normalized(e) == toLowerCase(trim(e.v))
Validated == pc \in {"validated", "revalidated"}

(* C12: for every raw record and every maxTags >= 1, the tags              *)
(* validateAndFixMetadata returns are an array of at most maxTags          *)
(* elements, each a non-empty string that trim and toLowerCase leave as it *)
(* is, no two of them equal after trim and toLowerCase.                    *)
C12_TagsNormalizedUniqueBounded ==
  Validated =>
    /\ metadata.tags.t = "arr"
    /\ Len(metadata.tags.v) <= maxTags
    /\ \A k \in DOMAIN metadata.tags.v :
         LET e == metadata.tags.v[k]
         IN  e.t = "str" /\ e.v # <<>> /\ trim(e.v) = e.v /\ toLowerCase(e.v) = e.v
    /\ \A a, b \in DOMAIN metadata.tags.v :
         Normalized(metadata.tags.v[a]) = Normalized(metadata.tags.v[b]) => a = b

(* C12, its case: Cat, "cat " and " d" with maxTags = 1 give the one tag   *)
(* cat.                                                                    *)
C12_Witness ==
  /\ pc = "validated"
  /\ maxTags = 1
  /\ given[1].tags = Arr(<<Str(Cat), Str(<<"c", "a", "t", " ">>), Str(<<" ", "d">>)>>)
  /\ metadata.tags = Arr(<<Str(<<"c", "a", "t">>)>>)

(* C13: the caller's record is after a call what it was at the call, tags  *)
(* included, and validateAndFixMetadata applied to the record it returned  *)
(* returns that record again.                                              *)
C13_IdempotentAndPure ==
  /\ Validated => rawMetadata = given[Len(given)]
  /\ pc = "revalidated" => metadata = given[2]

(* C13, its case: a raw record with an invalid title and tags that are     *)
(* changed by the first call; the second call returned the first result.   *)
C13_Witness ==
  /\ pc = "revalidated"
  /\ given[1].title = Num(7)
  /\ given[1].tags = Arr(<<Str(<<" ", "d">>), Num(7), Str(Cat)>>)
  /\ given[2] # given[1]
  /\ maxTags = 1
  /\ metadata.tags = Arr(<<Str(<<"d">>)>>)
  /\ rawMetadata = given[2]

(* The positions of the input's tags that are the first of their           *)
(* normalized form.                                                        *)
FirstSeen(tags) ==
  {k \in DOMAIN tags :
     /\ IsTag(tags[k])
     /\ \A m \in 1..(k - 1) : IsTag(tags[m]) => Normalized(tags[m]) # Normalized(tags[k])}

(* C14: the returned tags are the normalized forms of the input's          *)
(* first-seen tags, in the order of the input, cut after the first         *)
(* maxTags of them.                                                        *)
C14_FirstSeenOrderTruncated ==
  pc = "validated" /\ given[1].tags.t = "arr" =>
    LET tags == given[1].tags.v
        out == metadata.tags.v
        F == FirstSeen(tags)
    IN  /\ Len(out) = IF Cardinality(F) > maxTags THEN maxTags ELSE Cardinality(F)
        /\ \A p \in F :
             LET rank == Cardinality({q \in F : q <= p})
             IN  rank <= maxTags => out[rank] = Str(Normalized(tags[p]))

(* C14, its case: the example of the claim. *)
C14_Witness ==
  /\ pc = "validated"
  /\ maxTags = 5
  /\ given[1].tags = Arr(ExampleTags)
  /\ metadata.tags =
       Arr(<<Str(<<"c", "a", "t">>), Str(<<"d", "o", "g">>), Str(<<"b", "i", "r", "d">>),
             Str(<<"f", "i", "s", "h">>), Str(<<"l", "i", "o", "n">>)>>)

(* C15: for every raw record the call returns (no error is raised) and the *)
(* returned title is a non-empty string: the input's title as it is when   *)
(* that is a non-empty string, the placeholder Untitled Image otherwise.   *)
C15_TitleNeverEmpty ==
  /\ pc \in {"validate", "validated", "revalidated"} => genError = ""
  /\ pc = "validated" =>
       /\ metadata.title.t = "str" /\ metadata.title.v # <<>>
       /\ metadata.title =
            IF given[1].title.t = "str" /\ given[1].title.v # <<>>
            THEN given[1].title ELSE Str(UntitledImage)

(* C15, its case: a raw record with the empty string as title and no tags. *)
C15_Witness ==
  /\ pc = "validated"
  /\ given[1].title = Str(<<>>)
  /\ given[1].tags = Undef
  /\ metadata.title = Str(UntitledImage)
  /\ metadata.tags = Arr(<<>>)

(* C16: a step of compressImage never throws and never counts the item: it *)
(* returns the temporary path or, when the compression failed, the path of *)
(* the image with the directory as it was, and the generator goes on to    *)
(* the encoding; while the generator holds the path of the image itself,   *)
(* its encoding and its cleanup leave the directory as it is, and the      *)
(* cleanup goes on to the provider call.                                   *)
C16_CompressionFallsBack ==
  [][/\ pc = "compress" =>
          /\ pc' = "encode"
          /\ stats' = stats
          /\ items'[i].outcome = "none"
          /\ compressedImagePath' \in {file, TempName(file)}
          /\ compressedImagePath' = file => inputDir' = inputDir
     /\ pc \in {"encode", "cleanup"} /\ compressedImagePath = file =>
          /\ inputDir' = inputDir
          /\ pc = "cleanup" => pc' = "call" /\ stats' = stats]_vars

(* C16, its case: the compression of an image that is there fell back to   *)
(* the image's own path; the generator encoded it, passed the cleanup and  *)
(* is at the provider call, the image still in the directory and the item  *)
(* not counted.                                                            *)
C16_Witness ==
  /\ pc = "call"
  /\ compressedImagePath = file
  /\ Exists(inputDir, file)
  /\ inputDir[file] = "original"
  /\ items[i].outcome = "none"
  /\ stats.failed = 0

(* The texts the three layers hand to JSON.parse, in their order: the      *)
(* content of the fenced block, the brace region, the whole text.          *)
LayerCandidates(text) ==
  (IF MatchFenced(text).found THEN <<MatchFenced(text).group>> ELSE <<>>)
    \o (IF MatchBraces(text).found THEN <<MatchBraces(text).whole>> ELSE <<>>)
    \o <<text>>

ParsingLayers(text) ==
  {k \in DOMAIN LayerCandidates(text) : IsObjectText(LayerCandidates(text)[k])}

(* C19: for every response text that reports usage and has no layer whose  *)
(* text is null: when some layer's text parses, the generator returns the  *)
(* record of the first layer that parses, going past the layers before it  *)
(* that were found and did not parse; it throws only when no layer parses, *)
(* and then with the error "Could not parse response as JSON".             *)
C19_LayeredFallthrough ==
  /\ pc \in {"returned", "thrown"}
  /\ response.usage.reported
  /\ \A k \in DOMAIN LayerCandidates(response.text) :
       ~JSONparse(LayerCandidates(response.text)[k]).isNull
  => LET cands == LayerCandidates(response.text)
         P == ParsingLayers(response.text)
     IN  /\ P # {} =>
              ReturnedFrom({cands[CHOOSE k \in P : \A m \in P : k <= m]})
         /\ P = {} =>
              pc = "thrown" /\ genError = "Could not parse response as JSON"

(* C20: once the generation of an item has ended, by a record or by an     *)
(* error, the temporary file that compressImage wrote for that item is no  *)
(* longer in the input directory.                                          *)
C20_NoTempFileLeft ==
  \A k \in DOMAIN items :
    items[k].gen \in {"ok", "fail"} =>
      ~(/\ Exists(inputDir, TempName(imageFiles[k]))
        /\ inputDir[TempName(imageFiles[k])] = "jpeg")

(* The numbers the pipeline may be given as a limit. *)
IsPositiveInteger(val) == val.kind = "fin" /\ ~val.half /\ val.int > 0

C18_PipelineSeesValidLimits ==
  pc = "processing" =>
    /\ IsPositiveInteger(maxTags)
    /\ IsPositiveInteger(maxTitleChars)
    /\ delay.kind \in {"fin", "inf"}

(* C21: the temporary file of one candidate is never another candidate's   *)
(* file: a candidate that the orchestrator's own unlink of line 470 has    *)
(* not deleted is in the input directory with the content it had when the  *)
(* directory was listed, whichever other candidates were processed before  *)
(* or after it.                                                            *)
C21_TempNeverCollides ==
  \A k \in DOMAIN imageFiles :
    items[k].unlink # "ok" =>
      /\ Exists(inputDir, imageFiles[k])
      /\ inputDir[imageFiles[k]] = "original"

=============================================================================
